---- MODULE Spec2Model ----
(***************************************************************************)
(* Model of the user service: the users table (app/models/user.py), the    *)
(* UserService methods (app/services/user_service.py) and the route        *)
(* handlers (app/routes/user_routes.py, app/routes/internal_routes.py).    *)
(*                                                                         *)
(* The route handlers spell the columns and role values differently from   *)
(* the model and the service.  The model reads both spellings as the same  *)
(* column or value:                                                        *)
(*   userType = type, isActive = active, userId = user_id,                 *)
(*   firstName = first_name, 'superadmin' = 'super_admin',                 *)
(*   'normal_user' = 'normal'.                                             *)
(* Time is counted in units of ten minutes.                                *)
(***************************************************************************)
EXTENDS Integers, Sequences, FiniteSets, TLC

VARIABLES users, next_id, codes, now, ci, reg, last, tx, dirty

vars == <<users, next_id, codes, now, ci, reg, last, tx, dirty>>

\* ---------------------------------------------------------------- bounds
MaxUsers == 2
MaxTime == 2

\* ------------------------------------------------------------- constants
\* timedelta(minutes=10), in units of ten minutes
CodeTtl == 1

None == "None"
\* a DateTime column holding NULL
NoTime == -1

Ids == 1..MaxUsers
Times == 0..MaxTime
Procs == {"p1", "p2"}

Roles == {"unverified", "normal", "admin", "super_admin"}
\* caller roles as the gateway hands them over (JWT claim userType / X-User-Type)
CallerRoles == Roles
Emails == {"a@x.com", "A@x.com", "b@x.com"}
Tokens == {"t1", "t2"}
\* the token and expiry arguments the verification calls are driven with:
\* expiry 1 is in the future at time 0, equal to now at 1 and past at 2
TokenArgs == {<<None, NoTime>>, <<"t1", 1>>, <<"t1", NoTime>>}
Digits == {"111111", "222222"}
Names == {"Ann", "Bob"}

\* str.lower() on the e-mail addresses of the model
lower(e) == IF e = "A@x.com" THEN "a@x.com" ELSE e

\* ------------------------------------------------------------ the table
\* a row as User(...), with 'normal' as the default of the type column
NewUserNormal(e, n, tok, exp) ==
    [email |-> e, first_name |-> n, type |-> "normal", active |-> TRUE,
     email_verified |-> FALSE, verification_token |-> tok,
     token_expires_at |-> exp, profile_image_url |-> None]

\* a row as User(...) builds it with the column defaults of the model
NewUser(e, n, tok, exp) ==
    [email |-> e, first_name |-> n, type |-> "unverified", active |-> TRUE,
     email_verified |-> FALSE, verification_token |-> tok,
     token_expires_at |-> exp, profile_image_url |-> None]

\* a row as the seed scripts insert it (userType and isActive given)
SeedUser(e, n, r, act) ==
    [NewUser(e, n, None, NoTime) EXCEPT !.type = r, !.active = act]

Exists(i) == i \in DOMAIN users

\* the rows as db.session holds them: the committed row with the attributes
\* assigned in the session and not yet committed
Staged ==
    [j \in DOMAIN users |->
        IF j \in DOMAIN dirty THEN [users[j] EXCEPT !.first_name = dirty[j]]
        ELSE users[j]]

\* a request p that is between loading its User object and its commit holds
\* in tx[p] the call, the id, the row as loaded and the e-mail it asked for;
\* NoRow and IdleTx are the values of a request that holds nothing
NoRow == NewUser(None, None, None, NoTime)

IdleTx == [pc |-> "idle", op |-> None, id |-> 0, row |-> NoRow, email |-> None]

\* equality of the e-mail column inside the database: the column declares no
\* collation, so the comparison is the one the database was created with
ColEq(a, b) == IF ci THEN lower(a) = lower(b) ELSE a = b

\* ids of the rows User.query.filter_by(email=e) selects
RowsByEmail(e) == {i \in DOMAIN users : ColEq(users[i].email, e)}

\* User.query.filter_by(email=e).first(): the id of the row, or 0
get_user_by_email(e) ==
    IF RowsByEmail(e) = {} THEN 0
    ELSE CHOOSE i \in RowsByEmail(e) : \A j \in RowsByEmail(e) : i <= j

\* the unique index on users.email: would row i with e-mail e collide
UniqueViolation(i, e) ==
    \E j \in DOMAIN users : j # i /\ ColEq(users[j].email, e)

\* the outcome of the last finished call
Done(op, i, res, arg) == [op |-> op, id |-> i, res |-> res, arg |-> arg]

IdleReg == [pc |-> "idle", email |-> None, name |-> None, res |-> None]

\* ------------------------------------------------------------------ Init
Init ==
    /\ \E r1 \in Roles :
          users = [i \in {1} |-> SeedUser("a@x.com", "Ann", r1, TRUE)]
    /\ next_id = 2
    /\ codes = << >>
    /\ now = 0
    /\ ci \in BOOLEAN
    /\ reg = [p \in Procs |-> IdleReg]
    /\ last = Done("none", 0, None, None)
    /\ tx = [p \in Procs |-> IdleTx]
    /\ dirty = << >>

\* ------------------------------------------------- role and status calls
\* UserService.ban_user, also withdrawing the verification token
ban_and_clear_token(i) ==
    /\ IF ~Exists(i)
       THEN /\ users' = users
            /\ dirty' = dirty
            /\ last' = Done("ban_user", i, "None", None)
       ELSE /\ dirty' = << >>
            /\ users' = [Staged EXCEPT ![i].active = FALSE,
                                      ![i].verification_token = None,
                                      ![i].token_expires_at = NoTime]
            /\ last' = Done("ban_user", i, "user", None)
    /\ UNCHANGED <<next_id, codes, now, ci, reg, tx>>

\* UserService.ban_user
ban_user(i) ==
    /\ IF ~Exists(i)
       THEN /\ users' = users
            /\ dirty' = dirty
            /\ last' = Done("ban_user", i, "None", None)
       ELSE /\ dirty' = << >>
            /\ users' = [Staged EXCEPT ![i].active = FALSE]
            /\ last' = Done("ban_user", i, "user", None)
    /\ UNCHANGED <<next_id, codes, now, ci, reg, tx>>

\* UserService.unban_user
unban_user(i) ==
    /\ IF ~Exists(i)
       THEN /\ users' = users
            /\ dirty' = dirty
            /\ last' = Done("unban_user", i, "None", None)
       ELSE /\ dirty' = << >>
            /\ users' = [Staged EXCEPT ![i].active = TRUE]
            /\ last' = Done("unban_user", i, "user", None)
    /\ UNCHANGED <<next_id, codes, now, ci, reg, tx>>

\* UserService.promote_to_admin, refusing a suspended account
promote_if_active(i) ==
    /\ IF ~Exists(i) \/ ~users[i].active
       THEN /\ users' = users
            /\ dirty' = dirty
            /\ last' = Done("promote_to_admin", i, "None", None)
       ELSE /\ dirty' = << >>
            /\ users' = [Staged EXCEPT ![i].type = "admin"]
            /\ last' = Done("promote_to_admin", i, "user", None)
    /\ UNCHANGED <<next_id, codes, now, ci, reg, tx>>

\* UserService.promote_to_admin
promote_to_admin(i) ==
    /\ IF ~Exists(i)
       THEN /\ users' = users
            /\ dirty' = dirty
            /\ last' = Done("promote_to_admin", i, "None", None)
       ELSE /\ dirty' = << >>
            /\ users' = [Staged EXCEPT ![i].type = "admin"]
            /\ last' = Done("promote_to_admin", i, "user", None)
    /\ UNCHANGED <<next_id, codes, now, ci, reg, tx>>

\* UserService.demote_from_admin
demote_from_admin(i) ==
    /\ IF ~Exists(i)
       THEN /\ users' = users
            /\ dirty' = dirty
            /\ last' = Done("demote_from_admin", i, "None", None)
       ELSE IF users[i].type = "admin"
       THEN /\ users' = [Staged EXCEPT ![i].type = "normal"]
            /\ dirty' = << >>
            /\ last' = Done("demote_from_admin", i, "user", None)
       ELSE /\ users' = users
            /\ dirty' = dirty
            /\ last' = Done("demote_from_admin", i, "user", None)
    /\ UNCHANGED <<next_id, codes, now, ci, reg, tx>>

\* UserService.delete_user
delete_user(i) ==
    /\ IF ~Exists(i)
       THEN /\ users' = users
            /\ dirty' = dirty
            /\ last' = Done("delete_user", i, "False", None)
       ELSE IF users[i].type = "super_admin"
       THEN /\ users' = users
            /\ dirty' = dirty
            /\ last' = Done("delete_user", i, "ValueError: Cannot delete super admin", None)
       ELSE /\ users' = [j \in DOMAIN users \ {i} |-> Staged[j]]
            /\ dirty' = << >>
            /\ last' = Done("delete_user", i, "True", None)
    /\ UNCHANGED <<next_id, codes, now, ci, reg, tx>>

\* is_admin(jwt_claims) of user_routes.py
is_admin(caller) == caller \in {"admin", "super_admin"}

\* update_user_status: PUT /<user_id>/status with body {isActive: flag};
\* hasFlag = FALSE is a body without the isActive field, dbOk = FALSE a
\* commit that raises
update_user_status(caller, i, hasFlag, flag, dbOk) ==
    /\ IF ~is_admin(caller)
       THEN /\ users' = users
            /\ last' = Done("update_user_status", i, "403 Admin access required", caller)
       ELSE IF ~Exists(i)
       THEN /\ users' = users
            /\ last' = Done("update_user_status", i, "404 User not found", caller)
       ELSE IF users[i].type = "super_admin"
       THEN /\ users' = users
            /\ last' = Done("update_user_status", i, "403 Cannot modify superadmin status", caller)
       ELSE IF ~hasFlag
       THEN /\ users' = users
            /\ last' = Done("update_user_status", i, "400 Validation failed", caller)
       ELSE IF ~dbOk
       THEN /\ users' = users
            /\ last' = Done("update_user_status", i, "500 Failed to update user status", caller)
       ELSE /\ users' = [users EXCEPT ![i].active = flag]
            /\ last' = Done("update_user_status", i,
                            IF flag THEN "200 User unbanned successfully"
                                    ELSE "200 User banned successfully", caller)
    /\ UNCHANGED <<next_id, codes, now, ci, reg, tx, dirty>>

\* ---------------------------------------------------- verification calls
\* datetime.fromisoformat(x) if x else None, on the time stamps of the model
\* (NoTime stands for an absent or empty argument)
fromisoformat(x) == x

\* UserService.create_user; the commit raises when the unique index on
\* email rejects the row
create_user(e, n, tok, exp) ==
    /\ IF UniqueViolation(0, e)
       THEN /\ UNCHANGED <<users, next_id>>
            /\ dirty' = << >>
            /\ last' = Done("create_user", 0, "IntegrityError", None)
       ELSE /\ next_id <= MaxUsers
            /\ users' = [j \in DOMAIN users \cup {next_id} |->
                            IF j = next_id THEN NewUser(e, n, tok, fromisoformat(exp))
                            ELSE Staged[j]]
            /\ dirty' = << >>
            /\ next_id' = next_id + 1
            /\ last' = Done("create_user", next_id, "user", None)
    /\ UNCHANGED <<codes, now, ci, reg, tx>>

\* UserService.verify_email
verify_email(i) ==
    /\ IF ~Exists(i)
       THEN /\ users' = users
            /\ dirty' = dirty
            /\ last' = Done("verify_email", i, "None", None)
       ELSE /\ dirty' = << >>
            /\ users' = [Staged EXCEPT
                            ![i].email_verified = TRUE,
                            ![i].type = IF @ = "unverified" THEN "normal" ELSE @,
                            ![i].verification_token = None,
                            ![i].token_expires_at = NoTime]
            /\ last' = Done("verify_email", i, "user", None)
    /\ UNCHANGED <<next_id, codes, now, ci, reg, tx>>

\* verify_user: PUT /internal/users/<user_id>/verify
verify_user(i, dbOk) ==
    /\ IF ~Exists(i)
       THEN /\ users' = users
            /\ last' = Done("verify_user", i, "404 User not found", None)
       ELSE IF ~dbOk
       THEN /\ users' = users
            /\ last' = Done("verify_user", i, "500 Failed to verify user", None)
       ELSE /\ users' = [users EXCEPT ![i].type = "normal"]
            /\ last' = Done("verify_user", i, "200 User verified successfully", None)
    /\ UNCHANGED <<next_id, codes, now, ci, reg, tx, dirty>>

\* UserService.update_verification_token
update_verification_token(i, tok, exp) ==
    /\ IF ~Exists(i)
       THEN /\ users' = users
            /\ dirty' = dirty
            /\ last' = Done("update_verification_token", i, "None", None)
       ELSE /\ dirty' = << >>
            /\ users' = [Staged EXCEPT
                            ![i].verification_token = tok,
                            ![i].token_expires_at = fromisoformat(exp)]
            /\ last' = Done("update_verification_token", i, "user", None)
    /\ UNCHANGED <<next_id, codes, now, ci, reg, tx>>

\* user.token_expires_at > datetime.utcnow(), with >= in its place
token_valid_until(exp, t) == exp >= t

\* user.token_expires_at > datetime.utcnow()
token_not_expired(exp, t) == exp > t

\* UserService.get_valid_verification_token; arg carries the token returned
get_valid_verification_token(i) ==
    /\ IF /\ Exists(i)
          /\ users[i].verification_token # None
          /\ users[i].token_expires_at # NoTime
          /\ token_not_expired(users[i].token_expires_at, now)
       THEN last' = Done("get_valid_verification_token", i, "token",
                         users[i].verification_token)
       ELSE last' = Done("get_valid_verification_token", i, "None", None)
    /\ UNCHANGED <<users, next_id, codes, now, ci, reg, tx, dirty>>

\* datetime.utcnow() moves on
Tick ==
    /\ now < MaxTime
    /\ now' = now + 1
    /\ UNCHANGED <<users, next_id, codes, ci, reg, last, tx, dirty>>

\* ------------------------------------------------------------ e-mail calls
\* validate_email(...) on the inputs of the model: only the addresses pass
valid_email(e) == e \in Emails

\* UserService.update_user with data = {firstName: n, email: e}; NoName and
\* NoEmail stand for a key that is not in data.  A raised ValueError leaves
\* the table as committed before the call, and the session with the
\* first_name it has assigned before the raise.
NoName == "NoName"
NoEmail == "NoEmail"

\* user.first_name = data['firstName'] on the object of the session
stage_first_name(i, n) ==
    IF n = NoName THEN dirty
    ELSE [j \in DOMAIN dirty \cup {i} |-> IF j = i THEN n ELSE dirty[j]]

update_user(i, n, e) ==
    /\ IF ~Exists(i)
       THEN /\ users' = users
            /\ dirty' = dirty
            /\ last' = Done("update_user", i, "None", None)
       ELSE IF e # NoEmail /\ get_user_by_email(e) # 0 /\ get_user_by_email(e) # i
       THEN /\ users' = users
            /\ dirty' = stage_first_name(i, n)
            /\ last' = Done("update_user", i, "ValueError: Email already in use", None)
       ELSE LET named == IF n # NoName THEN [Staged[i] EXCEPT !.first_name = n]
                         ELSE Staged[i]
                changed == e # NoEmail /\ users[i].email # e
                row == IF changed
                       THEN [named EXCEPT
                               !.email = e,
                               !.type = IF @ \in {"admin", "super_admin"}
                                        THEN @ ELSE "unverified",
                               !.email_verified = FALSE]
                       ELSE named
            IN IF changed /\ UniqueViolation(i, e)
               THEN /\ users' = users
                    /\ dirty' = << >>
                    /\ last' = Done("update_user", i, "IntegrityError", None)
               ELSE /\ users' = [Staged EXCEPT ![i] = row]
                    /\ dirty' = << >>
                    /\ last' = Done("update_user", i,
                                    IF changed THEN "user, True" ELSE "user, False", None)
    /\ UNCHANGED <<next_id, codes, now, ci, reg, tx>>

\* new_email.lower() == user.email.lower(), without the lower()
same_email_exact(a, b) == a = b

\* new_email.lower() == user.email.lower()
same_email(a, b) == lower(a) = lower(b)

\* db.session.remove() at the end of the application context: what the
\* session has assigned and not committed is dropped
remove ==
    /\ dirty # << >>
    /\ dirty' = << >>
    /\ UNCHANGED <<users, next_id, codes, now, ci, reg, last, tx>>

\* request_email_update: POST /me/email/request-update by account i with
\* body {newEmail: e} ("" is a missing field); c is the code
\* _generate_verification_code draws, sendOk = FALSE a
\* _send_verification_email that raises
request_email_update(i, e, c, sendOk) ==
    /\ IF ~Exists(i)
       THEN /\ codes' = codes
            /\ last' = Done("request_email_update", i, "404 User not found", None)
       ELSE IF ~users[i].active
       THEN /\ codes' = codes
            /\ last' = Done("request_email_update", i, "403 Your account has been suspended", None)
       ELSE IF e = ""
       THEN /\ codes' = codes
            /\ last' = Done("request_email_update", i, "400 newEmail is required", None)
       ELSE IF ~valid_email(e)
       THEN /\ codes' = codes
            /\ last' = Done("request_email_update", i, "400 Invalid email format", None)
       ELSE IF same_email(e, users[i].email)
       THEN /\ codes' = codes
            /\ last' = Done("request_email_update", i, "400 New email must be different from current email", None)
       ELSE IF get_user_by_email(e) # 0
       THEN /\ codes' = codes
            /\ last' = Done("request_email_update", i, "409 Email already in use", None)
       ELSE /\ codes' = [j \in DOMAIN codes \cup {i} |->
                            IF j = i
                            THEN [new_email |-> e, code |-> c, expires_at |-> now + CodeTtl]
                            ELSE codes[j]]
            /\ last' = Done("request_email_update", i,
                            IF sendOk THEN "200 Verification code sent to new email address"
                                      ELSE "500 Failed to send verification email", None)
    /\ UNCHANGED <<users, next_id, now, ci, reg, tx, dirty>>

\* stored_data['code'] != verification_code, without the comparison
CodeMismatchNever(stored, c) == FALSE

\* stored_data['code'] != verification_code
CodeMismatch(stored, c) == stored # c

\* datetime.utcnow() > stored_data['expires_at'], with >= in its place
CodeExpiredAtDeadline(t, exp) == t >= exp

\* datetime.utcnow() > stored_data['expires_at']
CodeExpired(t, exp) == t > exp

\* del _email_verification_codes[user_id], leaving the entry in place
DelCodeKeeps(i) == codes

\* the dictionary without key i: del _email_verification_codes[user_id]
DelCode(i) == [j \in DOMAIN codes \ {i} |-> codes[j]]

\* the return of a failed comparison, also removing the pending entry
drop_pending(i) == DelCode(i)

\* the return of a failed e-mail or code comparison: no del, the entry stays
keep_pending(i) == codes

\* the except branch of the commit, also removing the pending entry
rollback_dropping_code(i) == [users |-> users, codes |-> DelCode(i)]

\* the except branch of the commit: db.session.rollback() restores the row,
\* and the del after the commit was not reached
rollback(i) == [users |-> users, codes |-> codes]

\* confirm_email_update: POST /me/email/confirm-update by account i with body
\* {newEmail: e, verificationCode: c} ("" is a missing field); dbOk = FALSE
\* is a commit that raises for a reason other than the unique index (last
\* then keeps the e-mail of the failed request)
confirm_email_update(i, e, c, dbOk) ==
    /\ IF ~Exists(i)
       THEN /\ UNCHANGED <<users, codes>>
            /\ last' = Done("confirm_email_update", i, "404 User not found", None)
       ELSE IF ~users[i].active
       THEN /\ UNCHANGED <<users, codes>>
            /\ last' = Done("confirm_email_update", i, "403 Your account has been suspended", None)
       ELSE IF e = "" \/ c = ""
       THEN /\ UNCHANGED <<users, codes>>
            /\ last' = Done("confirm_email_update", i, "400 Validation failed", None)
       ELSE IF i \notin DOMAIN codes
       THEN /\ UNCHANGED <<users, codes>>
            /\ last' = Done("confirm_email_update", i, "400 No pending email update request found", None)
       ELSE IF CodeExpired(now, codes[i].expires_at)
       THEN /\ users' = users
            /\ codes' = DelCode(i)
            /\ last' = Done("confirm_email_update", i, "400 Verification code has expired", None)
       ELSE IF lower(codes[i].new_email) # lower(e)
       THEN /\ users' = users
            /\ codes' = keep_pending(i)
            /\ last' = Done("confirm_email_update", i, "400 Email does not match the pending request", None)
       ELSE IF CodeMismatch(codes[i].code, c)
       THEN /\ users' = users
            /\ codes' = keep_pending(i)
            /\ last' = Done("confirm_email_update", i, "400 Invalid verification code", None)
       ELSE IF get_user_by_email(e) # 0
       THEN /\ users' = users
            /\ codes' = DelCode(i)
            /\ last' = Done("confirm_email_update", i, "409 Email already in use", None)
       ELSE IF ~dbOk \/ UniqueViolation(i, e)
       THEN /\ users' = rollback(i).users
            /\ codes' = rollback(i).codes
            /\ last' = Done("confirm_email_update", i, "500 Failed to update email", e)
       ELSE /\ users' = [users EXCEPT ![i].email = e, ![i].type = "unverified"]
            /\ codes' = DelCode(i)
            /\ last' = Done("confirm_email_update", i, "200 Email updated successfully", None)
    /\ UNCHANGED <<next_id, now, ci, reg, tx, dirty>>

\* ------------------------------------------------- calls that interleave
\* the UPDATE of a commit, writing back the whole row as it was loaded
flush_row(p, col, v) ==
    IF tx[p].id \notin DOMAIN users THEN users
    ELSE [users EXCEPT ![tx[p].id] = [tx[p].row EXCEPT ![col] = v]]

\* the UPDATE that db.session.commit() sends for the object of request p
\* after the assignment user.<col> = v: it sets the columns whose value
\* differs from the loaded one, so only col, and nothing when v is the value
\* that was loaded
flush(p, col, v) ==
    IF tx[p].id \notin DOMAIN users \/ tx[p].row[col] = v THEN users
    ELSE [users EXCEPT ![tx[p].id][col] = v]

\* user = self.get_user_by_id(user_id) of the service call op, in request p
load(p, op, i) ==
    /\ tx[p].pc \in {"idle", "done"}
    /\ IF ~Exists(i)
       THEN /\ tx' = [tx EXCEPT ![p] = IdleTx]
            /\ last' = Done(op, i, "None", None)
       ELSE /\ tx' = [tx EXCEPT ![p] = [pc |-> "loaded", op |-> op, id |-> i,
                                        row |-> users[i], email |-> None]]
            /\ last' = last
    /\ UNCHANGED <<users, next_id, codes, now, ci, reg, dirty>>

\* the assignment user.<col> = v and db.session.commit() of the call op
commit(p, op, col, v) ==
    /\ tx[p].pc = "loaded"
    /\ tx[p].op = op
    /\ users' = flush(p, col, v)
    /\ tx' = [tx EXCEPT ![p].pc = "done"]
    /\ last' = Done(op, tx[p].id, "user", None)
    /\ UNCHANGED <<next_id, codes, now, ci, reg, dirty>>

\* UserService.ban_user and UserService.promote_to_admin in two steps
ban_user_load(p, i) == load(p, "ban_user", i)

ban_user_commit(p) == commit(p, "ban_user", "active", FALSE)

promote_to_admin_load(p, i) == load(p, "promote_to_admin", i)

promote_to_admin_commit(p) == commit(p, "promote_to_admin", "type", "admin")

\* the checks of confirm_email_update up to the second look for the address
ConfirmPasses(i, e, c) ==
    /\ Exists(i)
    /\ users[i].active
    /\ e # "" /\ c # ""
    /\ i \in DOMAIN codes
    /\ ~CodeExpired(now, codes[i].expires_at)
    /\ lower(codes[i].new_email) = lower(e)
    /\ ~CodeMismatch(codes[i].code, c)
    /\ get_user_by_email(e) = 0

\* confirm_email_update in two steps, by request p: every check, with the
\* answer of the check that fails, then the assignments and the commit
confirm_check(p, i, e, c) ==
    /\ tx[p].pc \in {"idle", "done"}
    /\ IF ConfirmPasses(i, e, c)
       THEN /\ tx' = [tx EXCEPT ![p] = [pc |-> "checked", op |-> "confirm_email_update",
                                        id |-> i, row |-> users[i], email |-> e]]
            /\ UNCHANGED <<users, next_id, codes, now, ci, reg, last, dirty>>
       ELSE confirm_email_update(i, e, c, TRUE)

\* a commit that raises (the unique index on email, or dbOk = FALSE) and a
\* del that finds no entry both end in the except branch
confirm_commit(p, dbOk) ==
    LET i == tx[p].id
        e == tx[p].email
    IN /\ tx[p].pc = "checked"
       /\ IF ~dbOk \/ ~Exists(i) \/ UniqueViolation(i, e)
          THEN /\ users' = users
               /\ codes' = codes
               /\ last' = Done("confirm_email_update", i, "500 Failed to update email", e)
          ELSE IF i \notin DOMAIN codes
          THEN /\ users' = [users EXCEPT ![i].email = e, ![i].type = "unverified"]
               /\ codes' = codes
               /\ last' = Done("confirm_email_update", i, "500 Failed to update email", e)
          ELSE /\ users' = [users EXCEPT ![i].email = e, ![i].type = "unverified"]
               /\ codes' = DelCode(i)
               /\ last' = Done("confirm_email_update", i, "200 Email updated successfully", None)
       /\ tx' = [tx EXCEPT ![p].pc = "done"]
       /\ UNCHANGED <<next_id, now, ci, reg, dirty>>

\* ------------------------------------------------------------ profile calls
Urls == {"u1"}

\* update_current_user_profile: PUT /me by account i; body = FALSE is a
\* request without a JSON body, n the firstName of the body (NoName: the
\* body holds other fields only, "": an empty firstName)
update_current_user_profile(i, body, n, dbOk) ==
    /\ IF ~Exists(i)
       THEN /\ users' = users
            /\ last' = Done("update_current_user_profile", i, "404 User not found", None)
       ELSE IF ~users[i].active
       THEN /\ users' = users
            /\ last' = Done("update_current_user_profile", i, "403 Your account has been suspended", None)
       ELSE IF ~body
       THEN /\ users' = users
            /\ last' = Done("update_current_user_profile", i, "400 Request body is required", None)
       ELSE IF n = ""
       THEN /\ users' = users
            /\ last' = Done("update_current_user_profile", i, "400 Validation failed", None)
       ELSE IF ~dbOk
       THEN /\ users' = users
            /\ last' = Done("update_current_user_profile", i, "500 Failed to update profile", None)
       ELSE /\ users' = IF n = NoName THEN users
                        ELSE [users EXCEPT ![i].first_name = n]
            /\ last' = Done("update_current_user_profile", i, "200 Profile updated successfully", None)
    /\ UNCHANGED <<next_id, codes, now, ci, reg, tx, dirty>>

\* update_profile_image: PUT /me/profile-image by account i with body
\* {profileImageURL: url} ("" is a missing or empty url)
update_profile_image(i, body, url, dbOk) ==
    /\ IF ~Exists(i)
       THEN /\ users' = users
            /\ last' = Done("update_profile_image", i, "404 User not found", None)
       ELSE IF ~users[i].active
       THEN /\ users' = users
            /\ last' = Done("update_profile_image", i, "403 Your account has been suspended", None)
       ELSE IF ~body
       THEN /\ users' = users
            /\ last' = Done("update_profile_image", i, "400 Request body is required", None)
       ELSE IF url = ""
       THEN /\ users' = users
            /\ last' = Done("update_profile_image", i, "400 Validation failed", None)
       ELSE IF ~dbOk
       THEN /\ users' = users
            /\ last' = Done("update_profile_image", i, "500 Failed to update profile image", None)
       ELSE /\ users' = [users EXCEPT ![i].profile_image_url = url]
            /\ last' = Done("update_profile_image", i, "200 Profile image updated successfully", None)
    /\ UNCHANGED <<next_id, codes, now, ci, reg, tx, dirty>>

\* update_user_profile: PUT /<user_id>/profile for account i, sent by the
\* account current (the JWT identity); firstName is stored as given, empty
\* or not
update_user_profile(current, i, body, n, dbOk) ==
    /\ IF current # i
       THEN /\ users' = users
            /\ last' = Done("update_user_profile", i, "403 You can only update your own profile", None)
       ELSE IF ~Exists(i)
       THEN /\ users' = users
            /\ last' = Done("update_user_profile", i, "404 User not found", None)
       ELSE IF ~body
       THEN /\ users' = users
            /\ last' = Done("update_user_profile", i, "400 Request body is required", None)
       ELSE IF ~dbOk
       THEN /\ users' = users
            /\ last' = Done("update_user_profile", i, "500 Failed to update profile", None)
       ELSE /\ users' = IF n = NoName THEN users
                        ELSE [users EXCEPT ![i].first_name = n]
            /\ last' = Done("update_user_profile", i, "200 Profile updated successfully", None)
    /\ UNCHANGED <<next_id, codes, now, ci, reg, tx, dirty>>

\* ------------------------------------------------------------ registration
\* create_user of internal_routes.py, run by request p in two steps: the
\* validation and the existence check, then the insert and its commit
\* (dbOk = FALSE is a commit that raises for a reason other than the unique
\* index).
\* fieldsOk = FALSE is a body whose firstName, lastName or password fails
\* the checks; an e-mail that is "" or no address fails them too.
RegCheck(p, e, n, fieldsOk) ==
    /\ reg[p].pc = "idle"
    /\ IF ~fieldsOk \/ ~valid_email(e)
       THEN reg' = [reg EXCEPT ![p] = [pc |-> "done", email |-> e, name |-> n,
                                       res |-> "400 Validation failed"]]
       ELSE IF get_user_by_email(e) # 0
       THEN reg' = [reg EXCEPT ![p] = [pc |-> "done", email |-> e, name |-> n,
                                       res |-> "409 User with this email already exists"]]
       ELSE reg' = [reg EXCEPT ![p] = [pc |-> "checked", email |-> e, name |-> n,
                                       res |-> None]]
    /\ UNCHANGED <<users, next_id, codes, now, ci, last, tx, dirty>>

RegCommit(p, dbOk) ==
    /\ reg[p].pc = "checked"
    /\ IF ~dbOk \/ UniqueViolation(0, reg[p].email)
       THEN /\ UNCHANGED <<users, next_id>>
            /\ reg' = [reg EXCEPT ![p].pc = "done",
                                  ![p].res = "500 Failed to create user"]
       ELSE /\ next_id <= MaxUsers
            /\ users' = [j \in DOMAIN users \cup {next_id} |->
                            IF j = next_id
                            THEN NewUser(reg[p].email, reg[p].name, None, NoTime)
                            ELSE users[j]]
            /\ next_id' = next_id + 1
            /\ reg' = [reg EXCEPT ![p].pc = "done", ![p].res = "201"]
    /\ last' = Done("register", 0, reg'[p].res, reg[p].email)
    /\ UNCHANGED <<codes, now, ci, tx, dirty>>

\* ------------------------------------------------------ role decorators
\* require_admin: the wrapped handler runs only for X-User-Type admin or
\* super_admin
require_admin(caller) == caller \in {"admin", "super_admin"}

\* require_super_admin, also letting an admin through
require_any_admin(caller) == caller \in {"admin", "super_admin"}

\* require_super_admin: the wrapped handler runs only for X-User-Type
\* super_admin
require_super_admin(caller) == caller = "super_admin"

\* the 403 answer of a decorator; the handler is not entered
Refused(op, i, msg) ==
    /\ users' = users
    /\ last' = Done(op, i, msg, None)
    /\ UNCHANGED <<next_id, codes, now, ci, reg, tx, dirty>>

\* the administrative operations as called with the caller's role: each is
\* the service method behind the decorator of its guard
promote(caller, i) ==
    IF require_super_admin(caller) THEN promote_to_admin(i)
    ELSE Refused("promote", i, "403 Super admin access required")

demote(caller, i) ==
    IF require_super_admin(caller) THEN demote_from_admin(i)
    ELSE Refused("demote", i, "403 Super admin access required")

delete(caller, i) ==
    IF require_super_admin(caller) THEN delete_user(i)
    ELSE Refused("delete", i, "403 Super admin access required")

ban(caller, i) ==
    IF require_admin(caller) THEN ban_user(i)
    ELSE Refused("ban", i, "403 Admin access required")

unban(caller, i) ==
    IF require_admin(caller) THEN unban_user(i)
    ELSE Refused("unban", i, "403 Admin access required")

\* --------------------------------------------------------- specifications
AdminNext ==
    \/ \E i \in Ids : ban_user(i)
    \/ \E i \in Ids : unban_user(i)
    \/ \E i \in Ids : promote_to_admin(i)
    \/ \E i \in Ids : demote_from_admin(i)
    \/ \E i \in Ids : delete_user(i)
    \/ \E c \in CallerRoles, i \in Ids, h \in BOOLEAN, f \in BOOLEAN, d \in BOOLEAN :
          update_user_status(c, i, h, f, d)

SpecAdmin == Init /\ [][AdminNext]_vars

GuardNext ==
    \/ \E c \in CallerRoles, i \in Ids : promote(c, i)
    \/ \E c \in CallerRoles, i \in Ids : demote(c, i)
    \/ \E c \in CallerRoles, i \in Ids : delete(c, i)
    \/ \E c \in CallerRoles, i \in Ids : ban(c, i)
    \/ \E c \in CallerRoles, i \in Ids : unban(c, i)
    \/ \E c \in CallerRoles, i \in Ids, h \in BOOLEAN, f \in BOOLEAN, d \in BOOLEAN :
          update_user_status(c, i, h, f, d)

SpecGuard == Init /\ [][GuardNext]_vars

VerifyNext ==
    \/ \E e \in Emails, ta \in TokenArgs : create_user(e, "Bob", ta[1], ta[2])
    \/ \E i \in Ids : verify_email(i)
    \/ \E i \in Ids, d \in BOOLEAN : verify_user(i, d)
    \/ \E i \in Ids, ta \in TokenArgs \ {<<None, NoTime>>} :
          update_verification_token(i, ta[1], ta[2])
    \/ \E i \in Ids : get_valid_verification_token(i)
    \/ Tick

SpecVerify == Init /\ [][VerifyNext]_vars

\* the e-mail calls are driven for account 1; further accounts come from
\* create_user and hold the addresses account 1 may ask for
EmailNext ==
    \/ \E e \in Emails \cup {NoEmail} : update_user(1, NoName, e)
    \/ \E e \in Emails \cup {"", "nobody"}, c \in Digits, ok \in BOOLEAN :
          request_email_update(1, e, c, ok)
    \/ \E e \in Emails \cup {""}, c \in Digits \cup {""}, d \in BOOLEAN :
          confirm_email_update(1, e, c, d)
    \/ verify_email(1)
    \/ ban_user(1)
    \/ unban_user(1)
    \/ \E e \in Emails : create_user(e, "Bob", None, NoTime)
    \/ Tick

SpecEmail == Init /\ [][EmailNext]_vars

\* the e-mail change of account 1 alone: requests, confirmations, the clock,
\* suspension, and registrations that take the addresses
ConfirmNext ==
    \/ \E e \in Emails \cup {"", "nobody"}, c \in Digits, ok \in BOOLEAN :
          request_email_update(1, e, c, ok)
    \/ \E e \in Emails \cup {""}, c \in Digits \cup {""}, d \in BOOLEAN :
          confirm_email_update(1, e, c, d)
    \/ ban_user(1)
    \/ unban_user(1)
    \/ \E e \in Emails : create_user(e, "Bob", None, NoTime)
    \/ Tick

SpecConfirm == Init /\ [][ConfirmNext]_vars

RegisterNext ==
    \/ \E p \in Procs, e \in Emails \cup {""}, fo \in BOOLEAN : RegCheck(p, e, "Bob", fo)
    \/ \E p \in Procs : RegCommit(p, TRUE)

SpecRegister == Init /\ [][RegisterNext]_vars

\* both ways of creating an account, with every input they take, next to
\* calls that change the flags of an existing account
CreateNext ==
    \/ \E e \in Emails, n \in Names, ta \in TokenArgs : create_user(e, n, ta[1], ta[2])
    \/ \E e \in Emails \cup {""}, n \in Names, fo \in BOOLEAN :
          RegCheck("p1", e, n, fo)
    \/ \E d \in BOOLEAN : RegCommit("p1", d)
    \/ \E i \in Ids : verify_email(i)
    \/ \E i \in Ids : ban_user(i)

SpecCreate == Init /\ [][CreateNext]_vars

\* what the owner of account 1 can send, while the account is suspended and
\* while it is not
ProfileNext ==
    \/ \E b \in BOOLEAN, n \in Names \cup {"", NoName}, d \in BOOLEAN :
          update_current_user_profile(1, b, n, d)
    \/ \E b \in BOOLEAN, u \in Urls \cup {""}, d \in BOOLEAN :
          update_profile_image(1, b, u, d)
    \/ \E cur \in Ids, b \in BOOLEAN, n \in Names \cup {"", NoName}, d \in BOOLEAN :
          update_user_profile(cur, 1, b, n, d)
    \/ \E ok \in BOOLEAN : request_email_update(1, "b@x.com", "111111", ok)
    \/ \E c \in Digits, d \in BOOLEAN : confirm_email_update(1, "b@x.com", c, d)
    \/ ban_user(1)
    \/ unban_user(1)

SpecProfile == Init /\ [][ProfileNext]_vars

\* the role and status calls on two accounts whose other columns differ
FrameNext ==
    \/ \E ta \in TokenArgs : create_user("b@x.com", "Bob", ta[1], ta[2])
    \/ \E i \in Ids : verify_email(i)
    \/ \E i \in Ids : update_verification_token(i, "t2", 2)
    \/ \E i \in Ids : ban_user(i)
    \/ \E i \in Ids : unban_user(i)
    \/ \E i \in Ids : promote_to_admin(i)
    \/ \E i \in Ids : demote_from_admin(i)
    \/ \E c \in {"normal", "admin"}, i \in Ids, h \in BOOLEAN, f \in BOOLEAN, d \in BOOLEAN :
          update_user_status(c, i, h, f, d)

SpecFrame == Init /\ [][FrameNext]_vars

\* service calls of one application context, which may end between any two
\* of them
UpdateNext ==
    \/ \E i \in Ids, n \in Names \cup {NoName}, e \in Emails \cup {NoEmail} :
          update_user(i, n, e)
    \/ create_user("b@x.com", "Bob", None, NoTime)
    \/ \E i \in Ids : ban_user(i)
    \/ \E i \in Ids : verify_email(i)
    \/ remove

SpecUpdate == Init /\ [][UpdateNext]_vars

\* two requests that ban and promote, their steps in any order
RaceNext ==
    \/ \E p \in Procs, i \in Ids : ban_user_load(p, i)
    \/ \E p \in Procs : ban_user_commit(p)
    \/ \E p \in Procs, i \in Ids : promote_to_admin_load(p, i)
    \/ \E p \in Procs : promote_to_admin_commit(p)

SpecRace == Init /\ [][RaceNext]_vars

\* two requests that confirm an e-mail change, next to a registration of
\* the address they ask for
ConfirmRaceNext ==
    \/ \E e \in {"A@x.com", "b@x.com"} : create_user(e, "Bob", None, NoTime)
    \/ \E i \in Ids, c \in Digits : request_email_update(i, "b@x.com", c, TRUE)
    \/ \E p \in Procs, i \in Ids, c \in Digits : confirm_check(p, i, "b@x.com", c)
    \/ \E p \in Procs : confirm_commit(p, TRUE)

SpecConfirmRace == Init /\ [][ConfirmRaceNext]_vars

Next == AdminNext \/ GuardNext \/ VerifyNext \/ EmailNext \/ ConfirmNext \/ RegisterNext
            \/ CreateNext \/ ProfileNext \/ FrameNext
            \/ UpdateNext \/ RaceNext \/ ConfirmRaceNext

Spec == Init /\ [][Next]_vars

\* ----------------------------------------------------------------- claims
\* results that reject a call because of the target's or the caller's role
Protected(res) ==
    res \in {"ValueError: Cannot delete super admin",
             "403 Cannot modify superadmin status",
             "403 Admin access required"}

\* C1: for every account whose role is super_admin and every caller role,
\* ban, demote and delete are answered with a Protected rejection and leave
\* the table as it was.
C1_SuperAdminProtected ==
    [][\A i \in DOMAIN users :
          (/\ users[i].type = "super_admin"
           /\ \/ ban_user(i)
              \/ demote_from_admin(i)
              \/ delete_user(i)
              \/ \E c \in CallerRoles, h \in BOOLEAN, d \in BOOLEAN :
                    update_user_status(c, i, h, FALSE, d))
          => (Protected(last'.res) /\ users' = users)]_vars

\* C2: promote succeeds exactly on targets of role unverified or normal and
\* makes them admin; an admin or super_admin target is rejected with
\* AlreadyPrivileged and keeps its role.
C2_PromoteGuard ==
    [][\A i \in DOMAIN users :
          promote_to_admin(i)
          => IF users[i].type \in {"unverified", "normal"}
             THEN last'.res = "user" /\ users'[i].type = "admin"
             ELSE last'.res = "AlreadyPrivileged" /\ users'[i].type = users[i].type]_vars

\* C3: verifyEmail sets emailVerified once; a further verifyEmail on the
\* verified account is answered AlreadyVerified and changes nothing.
C3_VerifyOnce ==
    [][\A i \in DOMAIN users :
          (verify_email(i) /\ users[i].email_verified)
          => (last'.res = "AlreadyVerified" /\ users' = users)]_vars

\* C4: verifyEmail on an account whose token expiry lies in the past is
\* answered Expired and changes neither emailVerified nor the role nor the
\* token fields.
C4_ExpiredRejected ==
    [][\A i \in DOMAIN users :
          (/\ verify_email(i)
           /\ users[i].token_expires_at # NoTime
           /\ users[i].token_expires_at < now)
          => (last'.res = "Expired" /\ users'[i] = users[i])]_vars

\* C5: verification succeeds only with the stored token: whenever the caller's
\* token t differs from the stored one (also when none is stored) the answer
\* is InvalidToken and emailVerified and role stay as they were.  Neither
\* verify_email nor verify_user reads a token, so t is any token.
C5_TokenMustMatch ==
    [][\A i \in DOMAIN users : \A t \in Tokens :
          (/\ verify_email(i) \/ \E d \in BOOLEAN : verify_user(i, d)
           /\ t # users[i].verification_token)
          => (/\ last'.res = "InvalidToken"
              /\ users'[i].email_verified = users[i].email_verified
              /\ users'[i].type = users[i].type)]_vars

\* C6: requestEmailChange(id, e) followed at once by confirmEmailChange with
\* the same e and the code that request issued leaves the account with
\* email = e and emailVerified = false.
C6_RoundTrip ==
    [][\A i \in (IF last'.op = "confirm_email_update" THEN {last'.id} ELSE {})
                 \cap DOMAIN users \cap DOMAIN codes :
          (/\ last.op = "request_email_update"
           /\ last.id = i
           /\ last.res = "200 Verification code sent to new email address"
           /\ confirm_email_update(i, codes[i].new_email, codes[i].code, TRUE))
          => (/\ users'[i].email = codes[i].new_email
              /\ users'[i].email_verified = FALSE)]_vars

\* C7 as claimed: confirmEmailChange with a code different from the stored
\* code is answered CodeMismatch and leaves the e-mail unchanged.
C7_AnyWrongCodeIsMismatch ==
    [][\A i \in (IF last'.op = "confirm_email_update" THEN {last'.id} ELSE {})
                 \cap DOMAIN users \cap DOMAIN codes :
          \A e \in Emails \cup {""}, c \in Digits \cup {""}, d \in BOOLEAN :
             (confirm_email_update(i, e, c, d) /\ c # codes[i].code)
             => (/\ last'.res = "400 Invalid verification code"
                 /\ users'[i].email = users[i].email)]_vars

\* C7 amended: confirmEmailChange with a code different from the stored code
\* leaves the e-mail unchanged, and it is answered CodeMismatch when the
\* account is active, e-mail and code are both given, the pending entry has
\* not expired and the given e-mail equals the pending one ignoring case.
C7_WrongCode ==
    [][\A i \in (IF last'.op = "confirm_email_update" THEN {last'.id} ELSE {})
                 \cap DOMAIN users \cap DOMAIN codes :
          \A e \in Emails \cup {""}, c \in Digits \cup {""}, d \in BOOLEAN :
             (confirm_email_update(i, e, c, d) /\ c # codes[i].code)
             => (/\ users'[i].email = users[i].email
                 /\ (/\ users[i].active
                     /\ e # ""
                     /\ c # ""
                     /\ now <= codes[i].expires_at
                     /\ lower(e) = lower(codes[i].new_email))
                    => last'.res = "400 Invalid verification code")]_vars

\* a confirm was answered CodeMismatch while the entry is still pending
C7_Witness ==
    /\ last.op = "confirm_email_update"
    /\ last.res = "400 Invalid verification code"
    /\ last.id \in DOMAIN codes

\* C8: of two concurrent register calls with the same e-mail, when one
\* succeeds the other is answered EmailTaken and exactly one row with that
\* e-mail exists.
C8_ConcurrentRegister ==
    \A p \in Procs, q \in Procs :
       (/\ p # q
        /\ reg[p].pc = "done"
        /\ reg[q].pc = "done"
        /\ reg[p].email = reg[q].email
        /\ reg[p].res = "201"
        /\ reg[q].res # "400 Validation failed")
       => (/\ reg[q].res = "409 User with this email already exists"
           /\ Cardinality({i \in DOMAIN users : users[i].email = reg[p].email}) = 1)

\* C9: no two accounts have e-mails that are equal ignoring case.
C9_EmailUnique ==
    \A i \in DOMAIN users, j \in DOMAIN users :
       i # j => lower(users[i].email) # lower(users[j].email)

\* C10: a verified account has no pending verification token.
C10_VerifiedHasNoToken ==
    \A i \in DOMAIN users :
       users[i].email_verified
       => (users[i].verification_token = None /\ users[i].token_expires_at = NoTime)

\* C11: every call that changes an account's e-mail (confirm_email_update and
\* update_user with an email field) sets emailVerified to false and sets the
\* role to unverified, except that an admin or super_admin keeps the role.
C11_EmailChangeResets ==
    [][\A i \in (IF last'.op \in {"confirm_email_update", "update_user"}
                 THEN {last'.id} ELSE {}) \cap DOMAIN users :
          users'[i].email # users[i].email
          => (/\ users'[i].email_verified = FALSE
              /\ users'[i].type = IF users[i].type \in {"admin", "super_admin"}
                                  THEN users[i].type ELSE "unverified")]_vars

\* C12: banning an account {role normal, active} as an admin caller gives
\* {role normal, not active} and changes nothing else; promoting a suspended
\* normal account succeeds, makes it admin and leaves it suspended.
C12_BanThenPromote ==
    [][\A i \in DOMAIN users :
          /\ (/\ users[i].type = "normal"
               /\ users[i].active
               /\ \/ ban_user(i)
                  \/ update_user_status("admin", i, TRUE, FALSE, TRUE))
              => users' = [users EXCEPT ![i].active = FALSE]
          /\ (/\ users[i].type = "normal"
               /\ ~users[i].active
               /\ promote_to_admin(i))
              => (/\ last'.res = "user"
                  /\ users' = [users EXCEPT ![i].type = "admin"])]_vars

\* a suspended account has just been promoted to admin
C12_Witness ==
    /\ last.op = "promote_to_admin"
    /\ last.res = "user"
    /\ last.id \in DOMAIN users
    /\ users[last.id].type = "admin"
    /\ ~users[last.id].active

C16_NewAccountDefaults ==
    [][\A i \in (DOMAIN users') \ DOMAIN users :
          /\ last'.op \in {"create_user", "register"}
          /\ users'[i].type = "unverified"
          /\ users'[i].email_verified = FALSE
          /\ users'[i].active = TRUE]_vars

\* the registration route has just added an account
C16_Witness ==
    /\ last.op = "register"
    /\ last.res = "201"
    /\ \E i \in DOMAIN users \ {1} : users[i].email = last.arg

\* C14: ban of an admin target is rejected with Protected for every caller
\* and leaves the active flag unchanged.
C14_AdminNotBanned ==
    [][\A i \in DOMAIN users :
          (/\ users[i].type = "admin"
           /\ \/ ban_user(i)
              \/ \E c \in CallerRoles, h \in BOOLEAN, d \in BOOLEAN :
                    update_user_status(c, i, h, FALSE, d))
          => (Protected(last'.res) /\ users'[i].active = users[i].active)]_vars

\* C15: demote of a target that is not admin is answered with a rejection
\* (NotAdmin for unverified and normal, Protected for super_admin) and changes
\* nothing; demote of an admin sets the role to normal.
C15_DemoteReported ==
    [][\A i \in DOMAIN users :
          demote_from_admin(i)
          => IF users[i].type = "admin"
             THEN last'.res = "user" /\ users'[i].type = "normal"
             ELSE /\ users' = users
                  /\ last'.res = IF users[i].type = "super_admin"
                                 THEN "Protected" ELSE "NotAdmin"]_vars

\* the account whose confirm_email_update the step has just answered
ConfirmedId == IF last'.op = "confirm_email_update" THEN {last'.id} ELSE {}

\* C17: when sending the notification fails during request_email_update, the
\* request fails and no pending entry with the undelivered code is left for
\* that account.
C17_FailedSendLeavesNoCode ==
    [][\A i \in (IF last'.op = "request_email_update" THEN {last'.id} ELSE {}) :
          \A e \in Emails, c \in Digits :
             request_email_update(i, e, c, FALSE)
             => (/\ last'.res # "200 Verification code sent to new email address"
                 /\ ~(/\ i \in DOMAIN codes'
                      /\ codes'[i].code = c
                      /\ codes'[i].new_email = e))]_vars

\* C18: a confirm_email_update that reaches a pending entry (account active,
\* e-mail and code supplied) with now > expires_at answers Expired, deletes
\* the entry and leaves the accounts unchanged, whatever the e-mail and code
\* are; with now = expires_at it is not answered Expired, and the right
\* e-mail and code still change the address.
C18_ExpiryFirst ==
    [][\A i \in ConfirmedId \cap DOMAIN users \cap DOMAIN codes :
          \A e \in Emails, c \in Digits, d \in BOOLEAN :
             (users[i].active /\ confirm_email_update(i, e, c, d))
             => /\ now > codes[i].expires_at
                   => (/\ last'.res = "400 Verification code has expired"
                       /\ i \notin DOMAIN codes'
                       /\ users' = users)
                /\ now = codes[i].expires_at
                   => (/\ last'.res # "400 Verification code has expired"
                       /\ (/\ lower(e) = lower(codes[i].new_email)
                            /\ c = codes[i].code
                            /\ get_user_by_email(e) = 0
                            /\ d)
                           => (/\ last'.res = "200 Email updated successfully"
                               /\ users'[i].email = e))]_vars

\* a confirmation has just been answered Expired and the entry is gone
C18_Witness ==
    /\ last.op = "confirm_email_update"
    /\ last.res = "400 Verification code has expired"
    /\ last.id \in DOMAIN users
    /\ last.id \notin DOMAIN codes

\* C19: when the commit of a confirmed e-mail change fails, every account is
\* as before (email, emailVerified, role) and the pending entry is still
\* there; the same e-mail and code sent again before the expiry, with a
\* commit that works, change the address.
C19_FailedCommitKeepsAll ==
    [][/\ \A i \in ConfirmedId \cap DOMAIN users :
             last'.res = "500 Failed to update email"
             => (/\ users' = users
                 /\ codes' = codes
                 /\ i \in DOMAIN codes'
                 /\ lower(codes'[i].new_email) = lower(last'.arg))
       /\ \A i \in (IF last.res = "500 Failed to update email" THEN {last.id} ELSE {})
                    \cap DOMAIN codes :
             (/\ last.op = "confirm_email_update"
              /\ now <= codes[i].expires_at
              /\ confirm_email_update(i, last.arg, codes[i].code, TRUE))
             => (/\ last'.res = "200 Email updated successfully"
                 /\ users'[i].email = last.arg)]_vars

\* the commit of a confirmed change has just failed
C19_Witness ==
    /\ last.op = "confirm_email_update"
    /\ last.res = "500 Failed to update email"
    /\ last.id \in DOMAIN codes
    /\ users[last.id].email # last.arg

\* C20: a successful confirm_email_update deletes the pending entry; a
\* confirm_email_update of an active account without an entry answers "no
\* pending request" and changes nothing; an entry appears or changes only by
\* request_email_update; a confirm_email_update on an entry with
\* now > expires_at never succeeds, and the clock never goes back.
C20_SingleUse ==
    [][/\ \A i \in ConfirmedId :
             last'.res = "200 Email updated successfully" => i \notin DOMAIN codes'
       /\ \A i \in (ConfirmedId \cap DOMAIN users) \ DOMAIN codes :
             \A e \in Emails, c \in Digits, d \in BOOLEAN :
                (users[i].active /\ confirm_email_update(i, e, c, d))
                => (/\ last'.res = "400 No pending email update request found"
                    /\ users' = users
                    /\ codes' = codes)
       /\ \A i \in DOMAIN codes' :
             (i \notin DOMAIN codes \/ codes'[i] # codes[i])
             => (last'.op = "request_email_update" /\ last'.id = i)
       /\ \A i \in ConfirmedId \cap DOMAIN codes :
             now > codes[i].expires_at
             => (last'.res # "200 Email updated successfully" /\ users' = users)
       /\ now' >= now]_vars

\* a confirmation has just succeeded and its entry is gone
C20_Witness ==
    /\ last.op = "confirm_email_update"
    /\ last.res = "200 Email updated successfully"
    /\ last.id \notin DOMAIN codes
    /\ users[last.id].email # "a@x.com"

\* C24: get_valid_verification_token returns the stored token only when a
\* token and an expiry are stored and the expiry is strictly later than now,
\* and nothing otherwise (no account, no token, expiry <= now); it never
\* changes an account, so an expired token stays stored.
C24_ValidTokenRead ==
    [][\A i \in (IF last'.op = "get_valid_verification_token" THEN {last'.id} ELSE {}) :
          get_valid_verification_token(i)
          => /\ users' = users
             /\ IF /\ i \in DOMAIN users
                   /\ users[i].verification_token # None
                   /\ users[i].token_expires_at # NoTime
                   /\ users[i].token_expires_at > now
                THEN /\ last'.res = "token"
                     /\ last'.arg = users[i].verification_token
                ELSE last'.res = "None" /\ last'.arg = None]_vars

\* a read has just returned nothing for a token whose expiry is not after
\* now, and the token is still stored
C24_Witness ==
    /\ last.op = "get_valid_verification_token"
    /\ last.res = "None"
    /\ last.id \in DOMAIN users
    /\ users[last.id].verification_token # None
    /\ users[last.id].token_expires_at # NoTime
    /\ users[last.id].token_expires_at <= now

\* C25: a request_email_update that reaches the address checks (account
\* active, address well formed) answers "must be different" when the new
\* address equals the current one ignoring case, and otherwise "already in
\* use" when an account holds exactly that address; both leave the accounts
\* and the pending entries as they were.
C25_SameOrTaken ==
    [][\A i \in (IF last'.op = "request_email_update" THEN {last'.id} ELSE {})
                 \cap DOMAIN users :
          \A e \in Emails, c \in Digits, ok \in BOOLEAN :
             (users[i].active /\ request_email_update(i, e, c, ok))
             => /\ lower(e) = lower(users[i].email)
                   => (/\ last'.res = "400 New email must be different from current email"
                       /\ codes' = codes /\ users' = users)
                /\ (/\ lower(e) # lower(users[i].email)
                    /\ \E j \in DOMAIN users : users[j].email = e)
                   => (/\ last'.res = "409 Email already in use"
                       /\ codes' = codes /\ users' = users)]_vars

\* a request for a taken address has just been refused while an earlier
\* pending entry of the account is still there
C25_Witness ==
    /\ last.op = "request_email_update"
    /\ last.res = "409 Email already in use"
    /\ last.id \in DOMAIN codes

\* C26: verifying an account whose role is admin or super_admin (by
\* verify_email or by verify_user) sets emailVerified and keeps the role.
C26_VerifyKeepsAdmin ==
    [][\A i \in (IF last'.op \in {"verify_email", "verify_user"} THEN {last'.id} ELSE {})
                 \cap DOMAIN users :
          (/\ users[i].type \in {"admin", "super_admin"}
           /\ last'.res \in {"user", "200 User verified successfully"})
          => (/\ users'[i].type = users[i].type
              /\ users'[i].email_verified = TRUE)]_vars

\* C29: a confirm_email_update answered with the e-mail or the code mismatch
\* leaves accounts and pending entries unchanged; after it, the pending
\* e-mail and code sent before the expiry, with the address still free and a
\* commit that works, change the address.
C29_MismatchKeepsEntry ==
    [][/\ \A i \in ConfirmedId \cap DOMAIN users :
             last'.res \in {"400 Email does not match the pending request",
                            "400 Invalid verification code"}
             => (users' = users /\ codes' = codes /\ i \in DOMAIN codes')
       /\ \A i \in (IF last.res \in {"400 Email does not match the pending request",
                                      "400 Invalid verification code"}
                    THEN {last.id} ELSE {}) \cap DOMAIN codes :
             (/\ now <= codes[i].expires_at
              /\ get_user_by_email(codes[i].new_email) = 0
              /\ confirm_email_update(i, codes[i].new_email, codes[i].code, TRUE))
             => (/\ last'.res = "200 Email updated successfully"
                 /\ users'[i].email = codes[i].new_email)]_vars

\* a confirmation has just failed on the code and the entry is still valid
C29_Witness ==
    /\ last.op = "confirm_email_update"
    /\ last.res = "400 Invalid verification code"
    /\ last.id \in DOMAIN codes
    /\ now <= codes[last.id].expires_at

\* C21: the pending entry of an account is the one of its latest successful
\* request_email_update: an entry is written only by a request that
\* succeeds, and then holds that request's e-mail and code.
C21_LatestSuccessfulRequest ==
    [][\A i \in DOMAIN codes' :
          (i \notin DOMAIN codes \/ codes'[i] # codes[i])
          => /\ last'.op = "request_email_update"
             /\ last'.id = i
             /\ last'.res = "200 Verification code sent to new email address"
             /\ \E e \in Emails, c \in Digits :
                   /\ request_email_update(i, e, c, TRUE)
                   /\ codes'[i].new_email = e
                   /\ codes'[i].code = c]_vars

\* the calls an account sends about itself
OwnerOps ==
    {"update_current_user_profile", "update_profile_image",
     "update_user_profile", "request_email_update", "confirm_email_update"}

\* C28: while an account is suspended, every call it sends about itself
\* (profile update by either route, profile image, e-mail change request
\* and confirmation) is rejected and leaves the accounts and the pending
\* entries unchanged.
C28_SuspendedOwnerRejected ==
    [][\A i \in (IF last'.op \in OwnerOps THEN {last'.id} ELSE {}) \cap DOMAIN users :
          ~users[i].active
          => (/\ last'.res \in {"403 Your account has been suspended",
                                "403 You can only update your own profile"}
              /\ users' = users
              /\ codes' = codes)]_vars

\* C30: ban_user, unban_user and update_user_status change nothing but the
\* active flag of their target, promote_to_admin and demote_from_admin
\* nothing but its role; every other column, every other account and the
\* pending entries stay as they are.  So unban_user after ban_user gives back
\* exactly the account that was active before the ban.
C30_OnlyOwnField ==
    [][\A i \in (IF last'.op \in {"ban_user", "unban_user", "update_user_status",
                                  "promote_to_admin", "demote_from_admin"}
                 THEN {last'.id} ELSE {}) :
          /\ codes' = codes
          /\ DOMAIN users' = DOMAIN users
          /\ \A j \in DOMAIN users \ {i} : users'[j] = users[j]
          /\ i \in DOMAIN users
             => /\ last'.op = "ban_user"
                   => users'[i] = [users[i] EXCEPT !.active = FALSE]
                /\ last'.op = "unban_user"
                   => users'[i] = [users[i] EXCEPT !.active = TRUE]
                /\ last'.op = "update_user_status"
                   => users'[i] = [users[i] EXCEPT !.active = users'[i].active]
                /\ last'.op \in {"promote_to_admin", "demote_from_admin"}
                   => users'[i] = [users[i] EXCEPT !.type = users'[i].type]]_vars

\* an account holding a verification token has been banned and unbanned,
\* next to a second account
C30_Witness ==
    /\ last.op = "unban_user"
    /\ last.id \in DOMAIN users
    /\ users[last.id].active
    /\ users[last.id].verification_token # None
    /\ DOMAIN users # {last.id}

\* C27: an update_user that fails on an e-mail held by another account
\* persists none of its changes, at once or with a later commit: the stored
\* first name of an account changes only in a step in which update_user for
\* that account succeeds, and a failing update_user changes no account.
C27_FailedUpdateLeavesNothing ==
    [][/\ last'.res = "ValueError: Email already in use" => users' = users
       /\ \A i \in DOMAIN users \cap DOMAIN users' :
             users'[i].first_name # users[i].first_name
             => (/\ last'.op = "update_user"
                 /\ last'.id = i
                 /\ last'.res \in {"user, True", "user, False"})]_vars

\* C22: a confirm_email_update whose commit loses against another write of
\* the same address (a second confirmation, or a registration that commits
\* after the check) is answered "409 Email already in use" and leaves the
\* accounts unchanged.
C22_LoserGetsEmailTaken ==
    [][\A p \in Procs :
          (/\ tx[p].pc = "checked"
           /\ UniqueViolation(tx[p].id, tx[p].email)
           /\ confirm_commit(p, TRUE))
          => (/\ last'.res = "409 Email already in use"
              /\ users' = users)]_vars

\* C23: when a ban and a promote of the same account have both finished,
\* in whatever order their loads and commits ran, the account is admin and
\* not active and its other columns are as loaded.
C23_BanPromoteSerial ==
    \A p \in Procs, q \in Procs :
       (/\ tx[p].pc = "done" /\ tx[p].op = "ban_user"
        /\ tx[q].pc = "done" /\ tx[q].op = "promote_to_admin"
        /\ tx[p].id = tx[q].id
        /\ tx[p].id \in DOMAIN users)
       => users[tx[p].id] = [tx[p].row EXCEPT !.active = FALSE, !.type = "admin"]

\* both requests loaded the account before either committed, and both have
\* finished
C23_Witness ==
    /\ tx["p1"].pc = "done" /\ tx["p1"].op = "ban_user"
    /\ tx["p2"].pc = "done" /\ tx["p2"].op = "promote_to_admin"
    /\ tx["p1"].id = tx["p2"].id
    /\ tx["p1"].row.active /\ tx["p2"].row.active
    /\ tx["p1"].row.type = "normal" /\ tx["p2"].row.type = "normal"
    /\ users[tx["p1"].id].type = "admin"
    /\ ~users[tx["p1"].id].active
====
